---- MODULE Spec2Model ----
(***************************************************************************)
(* Model of slmschimp.py: Automation.automate and the MailChimp calls it   *)
(* makes, as a sequential program whose every REST call is one step.       *)
(* The mailing list (member status, member tags, campaigns) is the state   *)
(* of the external collaborator; every call is answered "ok", with a       *)
(* non-success HTTP status ("http") or with a network exception ("exc").   *)
(***************************************************************************)
EXTENDS Integers, Sequences, FiniteSets, TLC

\* ------------------------------------------------------------ bounds
MaxMembers == 2     \* list members of the general specification
MaxRuns == 2        \* invocations of automate in one behaviour (SpecRuns)
MaxFaults == 1      \* collaborator calls answered with a failure (Spec)
MaxLen == 3         \* tokens in the html of a campaign (SpecContent)
MaxDays == 30       \* days before and after the reference date (SpecDates)
MaxHours == 6       \* --hours of timer.py (SpecTimer)
MaxCycles == 4      \* runs one timer.py process starts (SpecTimer)
MaxTopics == 2      \* topics in one calendar answer (SpecTopics)

\* ------------------------------------------------------------ vocabulary
MemberOrder == <<"A", "B", "C", "D">>
None == "None"

\* tags are <<name, date>>; only Invited-<date> carries a date
TagAdult == <<"18+", 0>>           \* the tag with id 10181290
TagMarker == <<"slmschimp", 0>>    \* the tag with id 10201605
TagNoSend == <<"NoSend", 0>>
\* variant of TagStamp: the date left out of the tag name
TagStamp_NoDate(d) == <<"Invited", 0>>
TagStamp(d) == <<"Invited", d>>
NoTag == <<"-", 0>>

\* ------------------------------------------------------------ state
VARIABLES
    status,        \* collaborator: member -> Subscribed | Unsubscribed | Archived
    tags,          \* collaborator: member -> set of active tags
    campaigns,     \* collaborator: campaigns in creation order: save | sending | sent
    today,         \* the calendar day
    no_survey,     \* list members that never answered the survey
    list_members,  \* snapshot: list_members_info['members'] (contact ids)
    total_items,   \* snapshot: list_members_info['total_items']
    responses,     \* snapshot: contacts having a survey response
    snap_status,   \* snapshot: response.contact.status of each contact
    pc,            \* position of automate
    survey,        \* the loop index of automate (1-based)
    iso_date,      \* automate's iso_date
    branch,        \* eligibility branch taken for the current member
    processed_ids, \* automate's processed_ids
    send_result,   \* answer to the send request of this run
    runs,          \* invocations so far
    faults,        \* failures answered so far
    run_limit,     \* invocations this behaviour may make
    fault_limit,   \* failures the collaborator may answer in this behaviour
    page_limit,    \* members the collaborator returns in one page of the list
    calls,         \* this run's mutating calls, <<op, contact, tag, line, answer>>
    marked,        \* members holding the marker when the first pass ended
    status0,       \* member status when the run started
    tags0,         \* member tags when the run started
    campaigns0,    \* campaigns when the run started
    step3,         \* campaigns this run's step 3 <<read from, wrote to, sent>>
    fetches,       \* bulk fetches of this run <<list members, survey responses>>
    fn,            \* the function a direct call applies, "none" in a run
    arg,           \* the input of the direct call
    ret            \* the value the direct call returned

vars == <<status, tags, campaigns, today, no_survey, list_members, total_items,
          responses, snap_status, pc, survey, iso_date, branch, processed_ids,
          send_result, runs, faults, run_limit, fault_limit, page_limit, calls,
          marked, status0, tags0, campaigns0, step3, fetches, fn, arg, ret>>

collab == <<status, tags, campaigns>>
snapshot == <<list_members, total_items, responses, snap_status>>
limits == <<run_limit, fault_limit, page_limit>>
ghost == <<marked, status0, tags0, campaigns0, step3, fetches>>
direct == <<fn, arg, ret>>

\* ------------------------------------------------------------ helpers
Range(s) == {s[k] : k \in 1..Len(s)}

Known(c) == c \in DOMAIN status

\* answers the collaborator may give to one step of automate:
\*   ok    every call of the step succeeds
\*   http  the step's mutating call is answered with a non-success status
\*   exc   the mutating call gets no response: response is None and
\*         response.status_code raises
\*   read  a read of the step fails before its mutating call: the caller
\*         subscripts the failed result and raises
MayFail == faults < fault_limit
CallOutcomes == IF MayFail THEN {"ok", "http", "exc"} ELSE {"ok"}
ReadOutcomes == IF MayFail THEN {"ok", "read"} ELSE {"ok"}
StepOutcomes == CallOutcomes \cup ReadOutcomes
Raises(o) == o \in {"exc", "read"}
Fault(o) == IF o = "ok" \/ o = "204" THEN faults ELSE faults + 1
BetweenRuns == pc \in {"idle", "done", "crashed", "aborted"}

\* Python truthiness of a resolved field ("None" and "False" are falsy)
Truthy(v) == v = "True"
PyBool(b) == IF b THEN "True" ELSE "False"

\* ------------------------------------------------------------ collaborator
\* GET /lists/{id}/members: the members that are not archived, in list order
get_list_members_info(st) ==
    SelectSeq(MemberOrder, LAMBDA m : m \in DOMAIN st /\ st[m] # "Archived")

\* the request of get_list_members_info names no count: the answer holds the
\* first page of the members and the size of the whole list
Page(members, limit) ==
    SubSeq(members, 1, IF Len(members) < limit THEN Len(members) ELSE limit)

\* what the collaborator answers to a call for contact c out of the answers
\* S: it knows no member None and answers with a non-success status
Answers(c, S) == IF c = None THEN {"http"} ELSE S

\* campaign_info(status)       newest first, count 1
CampaignsIn(cs, st) == {k \in 1..Len(cs) : cs[k] = st}
Newest(S) == CHOOSE k \in S : \A j \in S : j <= k

draft_campaign_id(cs) ==
    IF CampaignsIn(cs, "save") = {} THEN 0 ELSE Newest(CampaignsIn(cs, "save"))

\* the newest Sent campaign; None (0) when there is none
last_campaign_id(cs) ==
    IF CampaignsIn(cs, "sent") = {} THEN 0 ELSE Newest(CampaignsIn(cs, "sent"))

\* variant of check_sending: never reports a campaign as sending
check_sending_Never(cs) == FALSE

check_sending(cs) == CampaignsIn(cs, "sending") # {}

create_campaign(cs, o) == IF o = "ok" THEN Append(cs, "save") ELSE cs

\* POST /campaigns/{id}/actions/send answered 204
SendAccepted(cs, id) == [cs EXCEPT ![id] = "sending"]

add_tag(ts, tag, o) == IF o = "ok" THEN ts \cup {tag} ELSE ts

subscribe(st, o) == IF o = "ok" THEN "Subscribed" ELSE st

unsubscribe(st, o) == IF o = "ok" THEN "Unsubscribed" ELSE st

archive(st, o) == IF o = "ok" THEN "Archived" ELSE st

\* ------------------------------------------------------------ Automation
contact_id(index) ==
    IF index \in 1..Len(list_members) THEN list_members[index] ELSE None

get_field_status(c) == IF c \in responses THEN snap_status[c] ELSE None

has_invite_tag(ts) == PyBool(TagMarker \in ts)

is_18(c, ts) == IF c \in responses THEN PyBool(TagAdult \in ts) ELSE None

\* variants of NeedsRefresh: no refresh at all; refresh only "Unsubscribed"
NeedsRefresh_Never(st) == FALSE
NeedsRefresh_OnlyUnsubscribed(st) == st = "Unsubscribed"

\* variant of NeedsRefresh: a member without a survey response is skipped
NeedsRefresh_OnlyKnown(st) == st \notin {"Subscribed", None}

\* line 687: the resubscribe-refresh is skipped only for "Subscribed"
NeedsRefresh(st) == st # "Subscribed"

\* variants of EligBranch: the age test left out; the age test inverted
EligBranch_NoAgeTest(marker, adult) ==
    IF ~Truthy(marker) THEN "invite" ELSE "restamp"
EligBranch_Inverted(marker, adult) ==
    IF ~Truthy(marker)
    THEN IF Truthy(adult) THEN "nosend" ELSE "invite"
    ELSE "restamp"

\* variant of EligBranch: a marked member is tested for age as well
EligBranch_MarkedByAge(marker, adult) ==
    IF Truthy(adult) THEN (IF Truthy(marker) THEN "restamp" ELSE "invite")
    ELSE "nosend"

\* lines 694-705: which eligibility branch runs
EligBranch(marker, adult) ==
    IF ~Truthy(marker)
    THEN IF Truthy(adult) THEN "invite" ELSE "nosend"
    ELSE "restamp"

\* line 725: the second pass visits the indices in reverse
SecondPassStart(n) == n
SecondPassNext(k) == k - 1
SecondPassOver(k) == k = 1

Log(op, c, tag, line, o) == Append(calls, <<op, c, tag, line, o>>)


\* ------------------------------------------------------------ initial states
Fresh ==
    /\ today = 1
    /\ list_members = <<>>
    /\ total_items = 0
    /\ responses = {}
    /\ snap_status = <<>>
    /\ pc = "idle"
    /\ survey = 0
    /\ iso_date = 0
    /\ branch = "none"
    /\ processed_ids = <<>>
    /\ send_result = None
    /\ runs = 0
    /\ faults = 0
    /\ calls = <<>>
    /\ marked = {}
    /\ status0 = <<>>
    /\ tags0 = <<>>
    /\ campaigns0 = <<>>
    /\ step3 = <<0, 0, 0>>
    /\ fetches = <<0, 0>>

\* no function is called directly
NoCall == fn = "none" /\ arg = <<>> /\ ret = <<>>

Roster(n) == {MemberOrder[k] : k \in 1..n}

\* a list of n members, each with any status and any of the two tags the
\* first pass reads; the first of them may have no survey response
Lists(n) ==
    /\ status \in [Roster(n) -> {"Subscribed", "Unsubscribed"}]
    /\ tags \in [Roster(n) -> SUBSET {TagAdult, TagMarker}]
    /\ no_survey \in SUBSET Roster(IF n = 0 THEN 0 ELSE 1)
    /\ campaigns \in {<<"sent">>, <<"sent", "save">>}

\* one run, the collaborator may fail
Init ==
    /\ \E n \in 0..MaxMembers : Lists(n)
    /\ run_limit = 1
    /\ fault_limit = MaxFaults
    /\ page_limit = Len(MemberOrder)
    /\ Fresh
    /\ NoCall

\* several runs, every call succeeds
InitRuns ==
    /\ \E n \in 0..MaxMembers : Lists(n)
    /\ run_limit = MaxRuns
    /\ fault_limit = 0
    /\ page_limit = Len(MemberOrder)
    /\ Fresh
    /\ NoCall

\* the end-to-end scenario: A is adult and not yet marked, B is not adult,
\* C already carries the marker; one run, every call succeeds
InitE2E ==
    /\ status \in [Roster(3) -> {"Subscribed", "Unsubscribed"}]
    /\ \E tc \in {{TagMarker}, {TagMarker, TagAdult}} :
          tags = [m \in Roster(3) |->
                    CASE m = "A" -> {TagAdult} [] m = "B" -> {} [] OTHER -> tc]
    /\ no_survey = {}
    /\ campaigns \in {<<"sent">>, <<"sent", "save">>}
    /\ run_limit = 1
    /\ fault_limit = 0
    /\ page_limit = Len(MemberOrder)
    /\ Fresh
    /\ NoCall

\* ------------------------------------------------------------ between runs
\* variant of FetchResponses: the survey responses are fetched in every run
FetchResponses_Always(total) == TRUE

\* line 1144: the survey responses are fetched when the list reports members
FetchResponses(total) == total # 0

\* variant of NothingToDo: automate enters its first pass in every run
NothingToDo_Never(total) == FALSE

\* lines 531-536 and 679: total_items() is None for a list of zero members
\* and automate returns its empty processed_ids at once
NothingToDo(total) == total = 0

\* __main__ (lines 1141-1150) fetches the snapshot, main calls automate
\* (lines 675-684)
StartRun ==
    /\ BetweenRuns
    /\ runs < run_limit
    /\ runs' = runs + 1
    /\ \E o \in ReadOutcomes :
          /\ faults' = Fault(o)
          /\ list_members' = IF o = "ok"
                             THEN Page(get_list_members_info(status), page_limit)
                             ELSE <<>>
          /\ total_items' = IF o = "ok" THEN Len(get_list_members_info(status)) ELSE 0
          /\ pc' = IF o # "ok" THEN "crashed"
                   ELSE IF NothingToDo(total_items') THEN "done" ELSE "resub"
    /\ responses' = Range(list_members') \ no_survey
    /\ snap_status' = [m \in responses' |-> status[m]]
    /\ survey' = 1
    /\ \E d \in {today, today + 1} :
          /\ runs = 0 => d = today
          /\ today' = d
    /\ iso_date' = today'
    /\ branch' = "none"
    /\ processed_ids' = <<>>
    /\ send_result' = None
    /\ calls' = <<>>
    /\ marked' = {}
    /\ status0' = status
    /\ tags0' = tags
    /\ campaigns0' = campaigns
    /\ step3' = <<0, 0, 0>>
    /\ fetches' = <<1, IF pc' # "crashed" /\ FetchResponses(total_items')
                        THEN 1 ELSE 0>>
    /\ UNCHANGED <<collab, no_survey, limits, direct>>

\* the platform stamps a member with its 18+ tag before a later run
EnvAddAdultTag ==
    /\ BetweenRuns
    /\ runs < run_limit
    /\ \E m \in DOMAIN tags :
          /\ TagAdult \notin tags[m]
          /\ tags' = [tags EXCEPT ![m] = @ \cup {TagAdult}]
    /\ UNCHANGED <<status, campaigns, today, no_survey, snapshot, pc, survey,
                   iso_date, branch, processed_ids, send_result, runs, faults,
                   limits, calls, ghost, direct>>

\* the collaborator finishes sending a campaign
SendingCompletes ==
    /\ \E k \in CampaignsIn(campaigns, "sending") :
          campaigns' = [campaigns EXCEPT ![k] = "sent"]
    /\ UNCHANGED <<status, tags, today, no_survey, snapshot, pc, survey,
                   iso_date, branch, processed_ids, send_result, runs, faults,
                   limits, calls, ghost, direct>>

\* ------------------------------------------------------------ first pass
\* what no step of automate changes
Frame == UNCHANGED <<today, no_survey, snapshot, iso_date, runs, limits,
                     status0, tags0, campaigns0, fetches, direct>>

\* the first pass moves to the next member, or ends (line 685)
Advance ==
    IF survey < total_items
    THEN /\ survey' = survey + 1
         /\ pc' = "resub"
         /\ marked' = marked
    ELSE /\ survey' = survey
         /\ pc' = "create"
         /\ marked' = {m \in Range(list_members) : TagMarker \in tags'[m]}

\* lines 686-691: the status test, then the forced unsubscribe
Resub ==
    /\ pc = "resub"
    /\ LET c == contact_id(survey) IN
       IF ~NeedsRefresh(get_field_status(c))
       THEN /\ pc' = "elig"
            /\ UNCHANGED <<status, faults, calls>>
       ELSE \E o \in Answers(c, CallOutcomes) :
               /\ faults' = IF c = None THEN faults ELSE Fault(o)
               /\ calls' = Log("unsubscribe", c, NoTag, 691, o)
               /\ pc' = IF Raises(o) THEN "crashed" ELSE "resub2"
               /\ status' = IF c = None THEN status
                            ELSE [status EXCEPT ![c] = unsubscribe(@, o)]
    /\ UNCHANGED <<tags, campaigns, survey, branch, processed_ids, send_result,
                   marked, step3>>
    /\ Frame

\* lines 692-693: the settle delay, then subscribe
Resub2 ==
    /\ pc = "resub2"
    /\ LET c == contact_id(survey) IN
       \E o \in Answers(c, CallOutcomes) :
          /\ faults' = IF c = None THEN faults ELSE Fault(o)
          /\ calls' = Log("subscribe", c, NoTag, 693, o)
          /\ pc' = IF Raises(o) THEN "crashed" ELSE "elig"
          /\ status' = IF c = None THEN status
                       ELSE [status EXCEPT ![c] = subscribe(@, o)]
    /\ UNCHANGED <<tags, campaigns, survey, branch, processed_ids, send_result,
                   marked, step3>>
    /\ Frame

\* lines 694, 695, 698, 702: the reads that choose the eligibility branch;
\* "http" is get_survey_result answered with a non-success status, which
\* get_field does not look at; list_tags for the contact None is answered
\* with an error body that has no 'tags', and subscripting it raises
EligOutcomes(c) ==
    IF c = None THEN {"read"}
    ELSE ReadOutcomes \cup
         (IF MayFail /\ c \in responses /\ ~Truthy(has_invite_tag(tags[c]))
          THEN {"http"} ELSE {})

Elig ==
    /\ pc = "elig"
    /\ LET c == contact_id(survey) IN
       \E o \in EligOutcomes(c) :
          /\ faults' = IF c = None THEN faults ELSE Fault(o)
          /\ branch' = IF Raises(o) THEN "none"
                       ELSE EligBranch(has_invite_tag(tags[c]), is_18(c, tags[c]))
          /\ pc' = IF Raises(o) THEN "crashed"
                   ELSE IF branch' = "nosend" THEN "nosend" ELSE "stamp"
    /\ UNCHANGED <<collab, survey, processed_ids, send_result, calls, marked, step3>>
    /\ Frame

\* lines 696 and 704: add_tag(contact_id, f"Invited-{iso_date}")
Stamp ==
    /\ pc = "stamp"
    /\ LET c == contact_id(survey) IN
       \E o \in CallOutcomes :
          /\ faults' = Fault(o)
          /\ calls' = Log("add_tag", c, TagStamp(iso_date),
                          IF branch = "invite" THEN 696 ELSE 704, o)
          /\ pc' = IF Raises(o) THEN "crashed" ELSE "mark"
          /\ tags' = [tags EXCEPT ![c] = add_tag(@, TagStamp(iso_date), o)]
    /\ UNCHANGED <<status, campaigns, survey, branch, processed_ids, send_result,
                   marked, step3>>
    /\ Frame

\* lines 697 and 705: add_tag(contact_id, 'slmschimp')
Mark ==
    /\ pc = "mark"
    /\ LET c == contact_id(survey) IN
       \E o \in CallOutcomes :
          /\ faults' = Fault(o)
          /\ calls' = Log("add_tag", c, TagMarker,
                          IF branch = "invite" THEN 697 ELSE 705, o)
          /\ tags' = [tags EXCEPT ![c] = add_tag(@, TagMarker, o)]
          /\ IF Raises(o)
             THEN pc' = "crashed" /\ UNCHANGED <<survey, marked, branch>>
             ELSE Advance /\ branch' = "none"
    /\ UNCHANGED <<status, campaigns, processed_ids, send_result, step3>>
    /\ Frame

\* line 700: add_tag(contact_id, 'NoSend')
NoSend ==
    /\ pc = "nosend"
    /\ LET c == contact_id(survey) IN
       \E o \in CallOutcomes :
          /\ faults' = Fault(o)
          /\ calls' = Log("add_tag", c, TagNoSend, 700, o)
          /\ pc' = IF Raises(o) THEN "crashed" ELSE "unsub"
          /\ tags' = [tags EXCEPT ![c] = add_tag(@, TagNoSend, o)]
    /\ UNCHANGED <<status, campaigns, survey, branch, processed_ids, send_result,
                   marked, step3>>
    /\ Frame

\* line 701: unsubscribe(contact_id, ...)
Unsub ==
    /\ pc = "unsub"
    /\ UNCHANGED <<tags, campaigns>>
    /\ LET c == contact_id(survey) IN
       \E o \in CallOutcomes :
          /\ faults' = Fault(o)
          /\ calls' = Log("unsubscribe", c, NoTag, 701, o)
          /\ status' = [status EXCEPT ![c] = unsubscribe(@, o)]
          /\ IF Raises(o)
             THEN pc' = "crashed" /\ UNCHANGED <<survey, marked, branch>>
             ELSE Advance /\ branch' = "none"
    /\ UNCHANGED <<processed_ids, send_result, step3>>
    /\ Frame

\* ------------------------------------------------------------ campaign
\* line 707 when draft_campaign_id() is None, line 713 when it is not
CreateLine(cs) == IF draft_campaign_id(cs) = 0 THEN 707 ELSE 713

\* lines 706-707 and 711-713: draft_campaign_id(), then create_campaign()
Create ==
    /\ pc = "create"
    /\ \E o \in StepOutcomes :
          /\ faults' = Fault(o)
          /\ calls' = IF o = "read" THEN calls
                      ELSE Log("create_campaign", None, NoTag, CreateLine(campaigns), o)
          /\ campaigns' = create_campaign(campaigns, o)
          /\ pc' = IF Raises(o) THEN "crashed" ELSE "content"
    /\ UNCHANGED <<status, tags, survey, branch, processed_ids, send_result,
                   marked, step3>>
    /\ Frame

\* lines 708-710 and 714-716: get_campaign_content(last_campaign_id()),
\* update_campaign_content, set_campaign_content(draft_campaign_id(), ...)
Content ==
    /\ pc = "content"
    /\ \E o \in StepOutcomes :
          /\ faults' = Fault(o)
          /\ calls' = IF o = "read" THEN calls
                      ELSE Log("set_campaign_content", None, NoTag,
                               IF CreateLine(campaigns0) = 707 THEN 710 ELSE 716, o)
          /\ step3' = IF o = "read" THEN step3
                      ELSE <<last_campaign_id(campaigns),
                             draft_campaign_id(campaigns), 0>>
          /\ pc' = IF Raises(o) THEN "crashed" ELSE "send"
    /\ UNCHANGED <<collab, survey, branch, processed_ids, send_result, marked>>
    /\ Frame

\* answers to the send request: 204, 400, another status, no answer
SendOutcomes == IF MayFail THEN {"204", "400", "other", "exc"} ELSE {"204"}

\* variant of AfterSend: the second pass follows the send at once
AfterSend_NoPoll(r) == "archive"

\* send_campaign (lines 362-385) and lines 717-721: where automate goes
\* after each answer
AfterSend(r) ==
    CASE r = "nodraft" -> "poll"
      [] r = "204" -> "poll"
      [] r = "400" -> "aborted"
      [] r = "exc" -> "aborted"
      [] OTHER -> "poll"

\* lines 717-721: send_campaign(draft_campaign_id())
Send ==
    /\ pc = "send"
    /\ LET id == draft_campaign_id(campaigns) IN
       IF id = 0
       THEN /\ send_result' = "nodraft"
            /\ UNCHANGED <<campaigns, faults, calls, step3>>
       ELSE \E r \in SendOutcomes :
               /\ send_result' = r
               /\ step3' = [step3 EXCEPT ![3] = id]
               /\ faults' = Fault(r)
               /\ calls' = Log("send_campaign", None, NoTag, 718, r)
               /\ campaigns' = IF r = "204" THEN SendAccepted(campaigns, id)
                               ELSE campaigns
    /\ pc' = AfterSend(send_result')
    /\ UNCHANGED <<status, tags, survey, branch, processed_ids, marked>>
    /\ Frame

\* lines 722-725: while check_sending(): sleep; then the second pass starts
Poll ==
    /\ pc = "poll"
    /\ \E o \in ReadOutcomes :
          /\ faults' = Fault(o)
          /\ pc' = IF Raises(o) THEN "crashed"
                   ELSE IF check_sending(campaigns) THEN "poll" ELSE "archive"
    /\ survey' = IF pc' = "archive" THEN SecondPassStart(total_items) ELSE survey
    /\ UNCHANGED <<collab, branch, processed_ids, send_result, calls, marked, step3>>
    /\ Frame

\* ------------------------------------------------------------ second pass
Retreat ==
    IF SecondPassOver(survey)
    THEN pc' = "final" /\ survey' = survey
    ELSE pc' = "archive" /\ survey' = SecondPassNext(survey)

\* variant of ToArchive: the 18+ tag id tested instead of the marker's
ToArchive_Adult(ts) == TagAdult \in ts

\* line 728: the members the second pass archives
ToArchive(ts) == Truthy(has_invite_tag(ts))

\* variant of Collect: only members whose archive call succeeded
Collect_OnSuccess(ids, c, o) == IF o = "ok" THEN Append(ids, c) ELSE ids

\* line 729: processed_ids.append(contact_id), before the archive call and
\* whatever its answer
Collect(ids, c, o) == Append(ids, c)

\* lines 727-733: has_invite_tag, then processed_ids.append and archive, or
\* the is_18+ read and the warning
Archive ==
    /\ pc = "archive"
    /\ LET c == contact_id(survey) IN
       IF ToArchive(tags[c])
       THEN \E o \in StepOutcomes :
               /\ faults' = Fault(o)
               /\ processed_ids' = IF o = "read" THEN processed_ids
                                   ELSE Collect(processed_ids, c, o)
               /\ calls' = IF o = "read" THEN calls
                           ELSE Log("archive", c, NoTag, 730, o)
               /\ status' = [status EXCEPT ![c] = archive(@, o)]
               /\ IF Raises(o) THEN pc' = "crashed" /\ survey' = survey ELSE Retreat
       ELSE \E o \in ReadOutcomes :
               /\ faults' = Fault(o)
               /\ UNCHANGED <<processed_ids, calls, status>>
               /\ IF Raises(o) THEN pc' = "crashed" /\ survey' = survey ELSE Retreat
    /\ UNCHANGED <<tags, campaigns, branch, send_result, marked, step3>>
    /\ Frame

\* lines 734-740: the closing log lines, return processed_ids
Finish ==
    /\ pc = "final"
    /\ pc' = "done"
    /\ UNCHANGED <<collab, survey, branch, processed_ids, send_result, faults,
                   calls, marked, step3>>
    /\ Frame

\* ------------------------------------------------------------ specification
Next ==
    \/ StartRun
    \/ EnvAddAdultTag
    \/ SendingCompletes
    \/ Resub
    \/ Resub2
    \/ Elig
    \/ Stamp
    \/ Mark
    \/ NoSend
    \/ Unsub
    \/ Create
    \/ Content
    \/ Send
    \/ Poll
    \/ Archive
    \/ Finish

Spec == Init /\ [][Next]_vars

SpecRuns == InitRuns /\ [][Next]_vars

SpecE2E == InitE2E /\ [][Next]_vars

\* one run, the collaborator may fail, a member may start in any status
InitStatuses ==
    /\ \E n \in 0..MaxMembers :
          /\ status \in [Roster(n) -> {"Subscribed", "Unsubscribed", "Cleaned", "Pending"}]
          /\ tags \in [Roster(n) -> SUBSET {TagAdult, TagMarker}]
          /\ no_survey \in SUBSET Roster(IF n = 0 THEN 0 ELSE 1)
    /\ campaigns = <<"sent">>
    /\ run_limit = 1
    /\ fault_limit = MaxFaults
    /\ page_limit = Len(MemberOrder)
    /\ Fresh
    /\ NoCall

SpecStatuses == InitStatuses /\ [][Next]_vars

\* one run, every call succeeds, the list may be longer than one page
InitPaged ==
    /\ \E n \in 0..MaxMembers : Lists(n)
    /\ run_limit = 1
    /\ fault_limit = 0
    /\ page_limit \in 1..MaxMembers
    /\ Fresh
    /\ NoCall

SpecPaged == InitPaged /\ [][Next]_vars

\* several runs, every call succeeds, automate keeps executing its next
\* statement and the collaborator eventually finishes sending a campaign
SpecLive ==
    /\ InitRuns
    /\ [][Next]_vars
    /\ WF_vars(SendingCompletes)
    /\ WF_vars(Poll)
    /\ WF_vars(Archive)
    /\ WF_vars(Finish)

TypeOK ==
    /\ pc \in {"idle", "resub", "resub2", "elig", "stamp", "mark", "nosend",
               "unsub", "create", "content", "send", "poll", "archive", "final",
               "done", "crashed", "aborted"}
    /\ \A m \in DOMAIN status :
          status[m] \in {"Subscribed", "Unsubscribed", "Cleaned", "Pending", "Archived"}
    /\ faults \in 0..fault_limit
    /\ runs \in 0..run_limit
    /\ total_items >= Len(list_members)

\* ------------------------------------------------------------ direct calls
\* what a direct call of a function leaves alone: the whole state of a run
run_state == <<collab, today, no_survey, snapshot, pc, survey, iso_date, branch,
               processed_ids, send_result, runs, faults, limits, calls, ghost>>

\* no run of automate is under way
Parked ==
    /\ today = 1
    /\ pc = "idle"
    /\ survey = 0
    /\ iso_date = 0
    /\ branch = "none"
    /\ processed_ids = <<>>
    /\ send_result = None
    /\ runs = 0
    /\ faults = 0
    /\ run_limit = 0
    /\ fault_limit = 0
    /\ page_limit = 0
    /\ calls = <<>>
    /\ marked = {}
    /\ status0 = <<>>
    /\ tags0 = <<>>
    /\ campaigns0 = <<>>
    /\ step3 = <<0, 0, 0>>
    /\ fetches = <<0, 0>>

\* ---- Automation.get_field (lines 547-578)
\* the field names automate asks for, and one that get_field does not know
FieldNames == {"status", "has_invite_tag", "is_18+", "nickname"}

\* what a survey response detail holds for the age question
AgeAnswers == {"yes", "no", "absent"}

\* get_field: the three families of fields; any other name leaves
\* field_value = None.  The survey detail fetched at line 561 is not read
\* for 'is_18+' (lines 562-566)
get_field(c, field_name) ==
    CASE field_name = "status" -> get_field_status(c)
      [] field_name = "has_invite_tag" -> has_invite_tag(tags[c])
      [] field_name = "is_18+" -> is_18(c, tags[c])
      [] OTHER -> None

\* a snapshot of one to MaxMembers members; arg is the age answer held by
\* each survey response detail
InitFields ==
    /\ \E n \in 1..MaxMembers : Lists(n)
    /\ list_members = get_list_members_info(status)
    /\ total_items = Len(list_members)
    /\ responses = Range(list_members) \ no_survey
    /\ snap_status = [m \in responses |-> status[m]]
    /\ arg \in [responses -> AgeAnswers]
    /\ fn = "get_field"
    /\ ret = <<None, None, None>>
    /\ Parked

GetField ==
    /\ fn = "get_field"
    /\ \E c \in Range(list_members), f \in FieldNames :
          ret' = <<c, f, get_field(c, f)>>
    /\ UNCHANGED <<run_state, fn, arg>>

NextFields == GetField

SpecFields == InitFields /\ [][NextFields]_vars

\* ---- campaign content (lines 596-641)
\* The html of a campaign is a sequence of tokens:
\*   <<"date", lead, weekday, day, month>>  the text  lead weekday, day month
\*        lead is "is on " or "" (the phrase is not announced by "is")
\*        day is the day as written: "12th", "5th", "09", "12"
\*   <<"url", u, "", "", "">>               a Discourse topic URL
\*   <<"txt", "", "", "", "">>              any other text
\* A date is <<year, month, day>>; an event is <<date, url>>.
Leads == {"is on ", ""}
DaysWritten == {"12th", "5th", "09"}
Months == {"July", "August"}
Urls == {"U_old", "U_new"}
Txt == <<"txt", "", "", "", "">>
DateTokens ==
    {<<"date", l, "Wednesday", d, m>> : l \in Leads, d \in DaysWritten, m \in Months}
UrlTokens == {<<"url", u, "", "", "">> : u \in Urls}
Tokens == DateTokens \cup UrlTokens \cup {Txt}
Contents == UNION {[1..n -> Tokens] : n \in 0..MaxLen}
Events == {<<d, u>> : d \in {<<2023, 8, 9>>, <<2023, 7, 12>>, <<2024, 7, 12>>},
                      u \in Urls}

\* line 603-606: month_dict
month_dict(m) == CASE m = "July" -> 7 [] m = "August" -> 8
\* int(day_number), the digits (\d{1,2}) of the written day
day_number(d) == CASE d = "12th" -> 12 [] d = "12" -> 12 [] d = "5th" -> 5
                   [] d = "09" -> 9
\* \d{2}: the written day has two digits
TwoDigits(d) == d \in {"12th", "12", "09"}
\* (st|nd|rd|th): the written day has an ordinal suffix
HasSuffix(d) == d \in {"12th", "5th"}

\* strftime('%A'): the weekday of a date of 2023 or 2024 in July or August
DayOfYear(date) ==
    (IF date[2] = 7 THEN 181 ELSE 212) + (IF date[1] = 2024 THEN 1 ELSE 0) + date[3]
WeekdayName(date) ==
    LET first == IF date[1] = 2023 THEN 0 ELSE 1
        w == (first + DayOfYear(date) - 1) % 7
    IN  <<"Sunday", "Monday", "Tuesday", "Wednesday", "Thursday", "Friday",
          "Saturday">>[w + 1]
\* strftime('%d'), strftime('%B')
TwoDigitDay(n) == CASE n = 9 -> "09" [] n = 12 -> "12" [] n = 5 -> "05"
MonthName(n) == CASE n = 7 -> "July" [] n = 8 -> "August"
\* line 635: strftime('%A, %d %B'), as the text part of a date token
strftime(date) == <<WeekdayName(date), TwoDigitDay(date[3]), MonthName(date[2])>>

First(S) == CHOOSE k \in S : \A j \in S : k <= j
\* the text of a date token without its lead
PhraseOf(t) == <<t[3], t[4], t[5]>>

\* line 598: "is(?: on)? WORD,? DD?(st|nd|rd|th)?\s*WORD"
MatchesDatePattern(t) == t[1] = "date" /\ t[2] # ""
\* line 613: the Discourse topic URL pattern
MatchesUrlPattern(t) == t[1] = "url"
\* line 629: "\w+, \d{2}(st|nd|rd|th)? \w+"
MatchesOldDate(t) == t[1] = "date" /\ TwoDigits(t[4])

\* where each pattern matches in the html, in reading order
DatePositions(html) == {k \in 1..Len(html) : MatchesDatePattern(html[k])}
UrlPositions(html) == {k \in 1..Len(html) : MatchesUrlPattern(html[k])}
OldDatePositions(html) == {k \in 1..Len(html) : MatchesOldDate(html[k])}

\* find_campaign_date_and_url (lines 596-618): <<"ok", date, url>>,
\* <<"None", <<>>, "">> when the date pattern does not match (line 618), or
\* <<"raised", <<>>, "IndexError">> when no URL is found (line 615)
find_campaign_date_and_url(html) ==
    LET ds == DatePositions(html)
        us == UrlPositions(html)
    IN  IF ds = {} THEN <<"None", <<>>, "">>
        ELSE IF us = {} THEN <<"raised", <<>>, "IndexError">>
        ELSE <<"ok",
               <<2023, month_dict(html[First(ds)][5]), day_number(html[First(ds)][4])>>,
               html[First(us)][2]>>

\* line 637: re.sub(old_date, discourse_date, html)
SubDate(html, old, new) ==
    [k \in 1..Len(html) |->
        IF html[k][1] = "date" /\ PhraseOf(html[k]) = old
        THEN <<"date", html[k][2], new[1], new[2], new[3]>>
        ELSE html[k]]
\* line 638: html.replace(old_url, new_url)
ReplaceUrl(html, old, new) ==
    [k \in 1..Len(html) |->
        IF html[k][1] = "url" /\ html[k][2] = old
        THEN <<"url", new, "", "", "">>
        ELSE html[k]]

\* variant of update_campaign_content: the comparison of line 623 left out
update_campaign_content_AlwaysRewrite(html, event) ==
    LET found == find_campaign_date_and_url(html)
        olds == OldDatePositions(html)
    IN  IF found[1] # "ok" \/ olds = {} THEN <<"raised", "TypeError">>
        ELSE <<"ok", ReplaceUrl(SubDate(html, PhraseOf(html[First(olds)]),
                                        strftime(event[1])),
                                found[3], event[2])>>

\* update_campaign_content (lines 620-641): <<"ok", html>> or
\* <<"raised", error>>.  Line 622 passes on what find raises; line 623
\* returns the content as it is; line 636 subscripts None when find
\* returned None; line 637 gives re.sub the pattern None when line 629 found
\* no old date
update_campaign_content(html, event) ==
    LET found == find_campaign_date_and_url(html)
        olds == OldDatePositions(html)
    IN  IF found[1] = "raised" THEN <<"raised", found[3]>>
        ELSE IF found[1] = "ok" /\ <<found[2], found[3]>> = event
        THEN <<"ok", html>>
        ELSE IF found[1] = "None" THEN <<"raised", "TypeError">>
        ELSE IF olds = {} THEN <<"raised", "TypeError">>
        ELSE <<"ok", ReplaceUrl(SubDate(html, PhraseOf(html[First(olds)]),
                                        strftime(event[1])),
                                found[3], event[2])>>

\* arg is <<html, event>>; ret is <<function, outcome, value>>
InitContent ==
    /\ status = <<>> /\ tags = <<>> /\ campaigns = <<>> /\ no_survey = {}
    /\ list_members = <<>> /\ total_items = 0
    /\ responses = {} /\ snap_status = <<>>
    /\ Parked
    /\ fn = "content"
    /\ arg \in Contents \X Events
    /\ ret = <<"none", "none", <<>>>>

FindCampaignDateAndUrl ==
    /\ fn = "content"
    /\ LET r == find_campaign_date_and_url(arg[1]) IN
       ret' = <<"find", r[1], <<r[2], r[3]>>>>
    /\ UNCHANGED <<run_state, fn, arg>>

UpdateCampaignContent ==
    /\ fn = "content"
    /\ LET r == update_campaign_content(arg[1], arg[2]) IN
       ret' = <<"update", r[1], r[2]>>
    /\ UNCHANGED <<run_state, fn, arg>>

NextContent == FindCampaignDateAndUrl \/ UpdateCampaignContent

SpecContent == InitContent /\ [][NextContent]_vars

\* ---- HouseKeeping (lines 1030-1047)
\* A date is the number of days from 2023-07-12 (negative before it).
reference_date == 0

\* variant of days_till_openeve: the outer "% 14" left out
days_till_openeve_NoOuterMod(now) ==
    14 - ((now - reference_date) % 14)

\* days_till_openeve (lines 1033-1039); now is what datetime.now().date()
\* gives at line 1036.  Python's % with a positive divisor is never
\* negative, as is % here
days_till_openeve(now) ==
    LET days_since_reference == now - reference_date
    IN  (14 - (days_since_reference % 14)) % 14

\* variant of next_openeve: a whole period added on an event day
next_openeve_FullPeriod(now1, now2) ==
    now1 + 14 - ((now2 - reference_date) % 14)

\* next_openeve (lines 1042-1047): line 1044 reads the clock itself (now1)
\* and then calls days_till_openeve, which reads it again (now2)
next_openeve(now1, now2) == now1 + days_till_openeve(now2)

\* arg is <<now1, now2>>, two successive readings of the clock: the same
\* date, or midnight passes between them; ret is <<function, value>>
InitDates ==
    /\ status = <<>> /\ tags = <<>> /\ campaigns = <<>> /\ no_survey = {}
    /\ list_members = <<>> /\ total_items = 0
    /\ responses = {} /\ snap_status = <<>>
    /\ Parked
    /\ fn = "dates"
    /\ \E t \in (reference_date - MaxDays)..(reference_date + MaxDays) :
          arg \in {<<t, t>>, <<t, t + 1>>}
    /\ ret = <<"none", 0>>

DaysTillOpeneve ==
    /\ fn = "dates"
    /\ ret' = <<"days_till_openeve", days_till_openeve(arg[1])>>
    /\ UNCHANGED <<run_state, fn, arg>>

NextOpeneve ==
    /\ fn = "dates"
    /\ ret' = <<"next_openeve", next_openeve(arg[1], arg[2])>>
    /\ UNCHANGED <<run_state, fn, arg>>

NextDates == DaysTillOpeneve \/ NextOpeneve

SpecDates == InitDates /\ [][NextDates]_vars

\* ---- the calendar (lines 763-793, 1049-1066)
\* The calendar read is answered <<answer, topics>>: answer is "200", "http"
\* (another status) or "exc" (the request raises); topics are the dates of
\* the open-evening events of the calendar.
CalendarAnswers == {"200", "http", "exc"}
\* the open-evening events a calendar may hold, as days from the clock date
TopicOffsets == {-1, 0, 3, 14}

\* Discourse.get_openeve_date_and_url (lines 763-793), result <<kind, date>>:
\*   "raised"    the except clause itself reads response.status_code of the
\*               response None (lines 774-776)
\*   "response"  a non-200 answer: the response object is returned (793)
\*   "None"      no open evening on or after today (lines 786-790)
\*   "event"     the closest open evening on or after today
get_openeve_date_and_url(cal, now) ==
    LET future == {d \in cal[2] : d >= now}
    IN  IF cal[1] = "exc" THEN <<"raised", 0>>
        ELSE IF cal[1] # "200" THEN <<"response", 0>>
        ELSE IF future = {} THEN <<"None", 0>>
        ELSE <<"event", CHOOSE d \in future : \A e \in future : d <= e>>

\* variant of do_we_have_an_event: only the computed date itself is accepted
do_we_have_an_event_ExactOnly(cal, now) ==
    LET event_info == get_openeve_date_and_url(cal, now)
    IN  IF event_info[1] = "raised" THEN "raised"
        ELSE IF event_info[1] = "None" THEN "False"
        ELSE IF event_info[1] = "response" THEN "raised"
        ELSE IF next_openeve(now, now) = event_info[2] THEN "True"
        ELSE "False"

\* HouseKeeping.do_we_have_an_event (lines 1049-1066): "True", "False" or
\* "raised"; line 1056 subscripts event_info, which raises for the response
\* object of a non-200 answer.  Every clock reading of one call gives the
\* date now
do_we_have_an_event(cal, now) ==
    LET event_info == get_openeve_date_and_url(cal, now)
    IN  IF event_info[1] = "raised" THEN "raised"
        ELSE IF event_info[1] = "None" THEN "False"
        ELSE IF event_info[1] = "response" THEN "raised"
        ELSE IF next_openeve(now, now) = event_info[2] THEN "True"
        ELSE IF event_info[2] > next_openeve(now, now) THEN "True"
        ELSE "False"

\* arg is <<calendar answer, now>>; ret is <<function, kind, date>>
InitEvent ==
    /\ status = <<>> /\ tags = <<>> /\ campaigns = <<>> /\ no_survey = {}
    /\ list_members = <<>> /\ total_items = 0
    /\ responses = {} /\ snap_status = <<>>
    /\ Parked
    /\ fn = "event"
    /\ \E now \in (reference_date - MaxDays)..(reference_date + MaxDays) :
          \E a \in CalendarAnswers, os \in SUBSET TopicOffsets :
             arg = <<<<a, {now + o : o \in os}>>, now>>
    /\ ret = <<"none", "none", 0>>

GetOpeneveDateAndUrl ==
    /\ fn = "event"
    /\ LET r == get_openeve_date_and_url(arg[1], arg[2]) IN
       ret' = <<"get_openeve_date_and_url", r[1], r[2]>>
    /\ UNCHANGED <<run_state, fn, arg>>

DoWeHaveAnEvent ==
    /\ fn = "event"
    /\ ret' = <<"do_we_have_an_event", do_we_have_an_event(arg[1], arg[2]), 0>>
    /\ UNCHANGED <<run_state, fn, arg>>

NextEvent == GetOpeneveDateAndUrl \/ DoWeHaveAnEvent

SpecEvent == InitEvent /\ [][NextEvent]_vars

\* ---- timer.py (lines 9-31)
\* arg is --hours; ret is
\*   <<position, runs started, runs finished, hours slept, exit status,
\*     command of the last run>>
\* position: "setup" (lines 10-22), "run" (line 26, the child process
\* executes), "sleep" (line 28), "exit" (the wrapper has ended).
\* Exit status -1: the wrapper has not ended.
command == <<"python3", "slmschimp.py", "-s", "-a">>

\* variant of SleepElapsed: the wrapper does not wait
SleepElapsed_AtOnce(slept, hours) == TRUE

\* line 28: time.sleep(args.hours * 60 * 60) returns
SleepElapsed(slept, hours) == slept = hours

InitTimer ==
    /\ status = <<>> /\ tags = <<>> /\ campaigns = <<>> /\ no_survey = {}
    /\ list_members = <<>> /\ total_items = 0
    /\ responses = {} /\ snap_status = <<>>
    /\ Parked
    /\ fn = "timer"
    /\ arg \in 1..MaxHours
    /\ ret = <<"setup", 0, 0, 0, -1, <<>>>>

\* lines 24-26: the loop is entered, subprocess.run starts the first run
TimerFirstRun ==
    /\ fn = "timer"
    /\ ret[1] = "setup"
    /\ ret' = <<"run", 1, 0, 0, -1, command>>
    /\ UNCHANGED <<run_state, fn, arg>>

\* line 26: subprocess.run returns when the child process has ended
TimerRunEnds ==
    /\ fn = "timer"
    /\ ret[1] = "run"
    /\ ret' = <<"sleep", ret[2], ret[3] + 1, 0, -1, ret[6]>>
    /\ UNCHANGED <<run_state, fn, arg>>

\* line 28: an hour of the sleep passes
TimerTick ==
    /\ fn = "timer"
    /\ ret[1] = "sleep"
    /\ ret[4] < arg
    /\ ret' = [ret EXCEPT ![4] = @ + 1]
    /\ UNCHANGED <<run_state, fn, arg>>

\* lines 25-26: the sleep is over, the loop starts the next run
TimerNextRun ==
    /\ fn = "timer"
    /\ ret[1] = "sleep"
    /\ SleepElapsed(ret[4], arg)
    /\ ret[2] < MaxCycles
    /\ ret' = <<"run", ret[2] + 1, ret[3], ret[4], -1, command>>
    /\ UNCHANGED <<run_state, fn, arg>>

\* a keyboard interrupt: inside the try block (lines 24-28) it is caught
\* and the wrapper exits with status 0 (lines 29-31); subprocess.run ends
\* the child before it passes the interrupt on.  Before the try block
\* (lines 10-22) nothing catches it and the interpreter ends with status 130
TimerInterrupt ==
    /\ fn = "timer"
    /\ ret[1] \in {"setup", "run", "sleep"}
    /\ ret' = <<"exit", ret[2], IF ret[1] = "run" THEN ret[3] + 1 ELSE ret[3],
                ret[4], IF ret[1] = "setup" THEN 130 ELSE 0, ret[6]>>
    /\ UNCHANGED <<run_state, fn, arg>>

NextTimer ==
    \/ TimerFirstRun
    \/ TimerRunEnds
    \/ TimerTick
    \/ TimerNextRun
    \/ TimerInterrupt

SpecTimer == InitTimer /\ [][NextTimer]_vars

\* ---- main (lines 1069-1097)
\* variant of main: the scheduler block does not test --force
main_ForcedAlso(auto, force, cal, now) ==
    LET asked == auto /\ now # next_openeve(now, now)
        event == IF asked THEN do_we_have_an_event(cal, now) ELSE "unasked"
    IN  IF event = "raised" THEN <<"raised", 0>>
        ELSE <<"returned", (IF event = "True" THEN 1 ELSE 0)
                           + (IF auto /\ force THEN 1 ELSE 0)>>

\* main, lines 1078-1097: <<outcome, calls of automate>>.  The block of line
\* 1078 asks the scheduler only with --auto, without --force and on a day that
\* is not the computed open evening; the block of line 1095 calls automate
\* with --auto and --force.  An exception of do_we_have_an_event ends main.
\* Every clock reading of one call gives the date now
main(auto, force, cal, now) ==
    LET asked == auto /\ now # next_openeve(now, now) /\ ~force
        event == IF asked THEN do_we_have_an_event(cal, now) ELSE "unasked"
    IN  IF event = "raised" THEN <<"raised", 0>>
        ELSE <<"returned", (IF event = "True" THEN 1 ELSE 0)
                           + (IF auto /\ force THEN 1 ELSE 0)>>

\* arg is <<calendar answer, now, --auto, --force>>; ret is
\* <<function, outcome, calls of automate>>
InitMain ==
    /\ status = <<>> /\ tags = <<>> /\ campaigns = <<>> /\ no_survey = {}
    /\ list_members = <<>> /\ total_items = 0
    /\ responses = {} /\ snap_status = <<>>
    /\ Parked
    /\ fn = "main"
    /\ \E now \in (reference_date - MaxDays)..(reference_date + MaxDays) :
          \E a \in CalendarAnswers, os \in SUBSET TopicOffsets :
             \E auto \in BOOLEAN, force \in BOOLEAN :
                arg = <<<<a, {now + o : o \in os}>>, now, auto, force>>
    /\ ret = <<"none", "none", 0>>

Main ==
    /\ fn = "main"
    /\ LET r == main(arg[3], arg[4], arg[1], arg[2]) IN
       ret' = <<"main", r[1], r[2]>>
    /\ UNCHANGED <<run_state, fn, arg>>

NextMain == Main

SpecMain == InitMain /\ [][NextMain]_vars

\* ---- the calendar topics (lines 776-790)
\* A topic is <<title, date, id>>; a title is its words as written.  The
\* slug of a topic is its title in lower case joined by "-", and its URL is
\* base_url/t/slug/id, here <<slug, id>>.
Titles == {<<"Open", "Evening">>, <<"OPEN", "EVENING">>, <<"Reopening", "evening">>,
           <<"Family", "Open", "Day">>, <<"Quiz", "evening">>}
TopicIds == {1, 2}

\* str.lower() of a word
Lower(w) ==
    CASE w \in {"Open", "OPEN"} -> "open"
      [] w \in {"Evening", "EVENING", "evening"} -> "evening"
      [] w = "Reopening" -> "reopening"
      [] w = "Family" -> "family"
      [] w = "Day" -> "day"
      [] w = "Quiz" -> "quiz"
\* "open" in word, "evening" in word: substring tests on a lower-case word
HasOpen(w) == w \in {"open", "reopening"}
HasEvening(w) == w = "evening"
\* line 779: "open" in title_lower and "evening" in title_lower
IsOpenEvening(title) ==
    /\ \E k \in 1..Len(title) : HasOpen(Lower(title[k]))
    /\ \E k \in 1..Len(title) : HasEvening(Lower(title[k]))

\* the slugs in the order of Python's string comparison
SlugOrder == <<"family-open-day", "open-evening", "quiz-evening", "reopening-evening">>
Slug(title) ==
    CASE title \in {<<"Open", "Evening">>, <<"OPEN", "EVENING">>} -> "open-evening"
      [] title = <<"Reopening", "evening">> -> "reopening-evening"
      [] title = <<"Family", "Open", "Day">> -> "family-open-day"
      [] title = <<"Quiz", "evening">> -> "quiz-evening"
SlugRank(s) == CHOOSE k \in 1..Len(SlugOrder) : SlugOrder[k] = s
\* lines 781-782: event_url
event_url(topic) == <<Slug(topic[1]), topic[3]>>

\* lines 776-783: open_eves, the (date, url) pairs of the open evenings
open_eves(topics) ==
    {<<t[2], event_url(t)>> : t \in {x \in topics : IsOpenEvening(x[1])}}

\* Python's order on (date, link) tuples: the date, then the link
TupleLeq(a, b) ==
    \/ a[1] < b[1]
    \/ /\ a[1] = b[1]
       /\ \/ SlugRank(a[2][1]) < SlugRank(b[2][1])
          \/ (a[2][1] = b[2][1] /\ a[2][2] <= b[2][2])

\* variant of closest_future_event: an event dated today is left out
closest_future_event_Strict(eves, now) ==
    LET future == {e \in eves : e[1] > now}
    IN  IF future = {} THEN <<"None", 0, <<>>>>
        ELSE LET m == CHOOSE e \in future : \A f \in future : TupleLeq(e, f)
             IN  <<"event", m[1], m[2]>>

\* lines 785-790: min over the pairs dated today or later, default None
closest_future_event(eves, now) ==
    LET future == {e \in eves : e[1] >= now}
    IN  IF future = {} THEN <<"None", 0, <<>>>>
        ELSE LET m == CHOOSE e \in future : \A f \in future : TupleLeq(e, f)
             IN  <<"event", m[1], m[2]>>

\* arg is <<<<calendar answer, topics>>, now>>; ret is <<function, kind,
\* date, url>>
InitTopics ==
    /\ status = <<>> /\ tags = <<>> /\ campaigns = <<>> /\ no_survey = {}
    /\ list_members = <<>> /\ total_items = 0
    /\ responses = {} /\ snap_status = <<>>
    /\ Parked
    /\ fn = "topics"
    /\ \E now \in (reference_date - 1)..(reference_date + 1) :
          \E a \in CalendarAnswers :
             \E n \in 0..MaxTopics :
                \E ts \in [1..n -> Titles \X TopicOffsets \X TopicIds] :
                   arg = <<<<a, {<<ts[k][1], now + ts[k][2], ts[k][3]>> : k \in 1..n}>>,
                           now>>
    /\ ret = <<"none", "none", 0, <<>>>>

\* get_openeve_date_and_url (lines 763-793) over the topics of the answer
GetOpeneveTopic ==
    /\ fn = "topics"
    /\ LET r == IF arg[1][1] = "200"
                THEN closest_future_event(open_eves(arg[1][2]), arg[2])
                ELSE <<get_openeve_date_and_url(<<arg[1][1], {}>>, arg[2])[1], 0, <<>>>>
       IN  ret' = <<"get_openeve_date_and_url", r[1], r[2], r[3]>>
    /\ UNCHANGED <<run_state, fn, arg>>

NextTopics == GetOpeneveTopic

SpecTopics == InitTopics /\ [][NextTopics]_vars

\* ------------------------------------------------------------ claims
\* a logged call e is <<op, contact, tag, line, answer>>
CallsOf(m) == SelectSeq(calls, LAMBDA e : e[2] = m)
StepOneCallsOf(m) == SelectSeq(calls, LAMBDA e : e[2] = m /\ e[4] \in {691, 693})
EligCallsOf(m) == SelectSeq(calls, LAMBDA e : e[2] = m /\ e[4] \in 696..705)
Shape(cs) == [k \in 1..Len(cs) |-> <<cs[k][1], cs[k][3]>>]
AllOk(cs) == \A k \in 1..Len(cs) : cs[k][5] = "ok"
IsPrefix(a, b) == Len(a) <= Len(b) /\ a = SubSeq(b, 1, Len(a))
Listed == Range(list_members)
IndexOf(m) == CHOOSE k \in 1..Len(list_members) : list_members[k] = m
ArchiveCalls == {calls[k][2] : k \in {j \in 1..Len(calls) : calls[j][1] = "archive"}}

\* the first pass of this run is over
PassOver == pc \in {"create", "content", "send", "poll", "archive", "final", "done"}
\* the first pass is done with member m
EligDone(m) ==
    \/ PassOver
    \/ pc \in {"resub", "resub2", "elig", "stamp", "mark", "nosend", "unsub"}
       /\ IndexOf(m) < survey
\* step 1 of the first pass is done with member m
StepOneDone(m) ==
    \/ EligDone(m)
    \/ pc \in {"elig", "stamp", "mark", "nosend", "unsub"} /\ IndexOf(m) = survey

InviteTagCall(e) == e[1] = "add_tag" /\ e[3] \in {TagMarker, TagStamp(iso_date)}

\* C1 as stated: when the first pass is over, every listed member that
\* resolves is_18+ = False carries no 'slmschimp', carries 'NoSend' and is
\* Unsubscribed, whatever it carried before the run.
C1_AsStated ==
    PassOver =>
        \A m \in Listed :
            is_18(m, tags[m]) = "False" =>
                /\ TagMarker \notin tags[m]
                /\ TagNoSend \in tags[m]
                /\ status[m] = "Unsubscribed"

\* C1 amended: when the first pass is over, every listed member that
\* resolves is_18+ = False, did not carry 'slmschimp' when the run started
\* and had every call made for it answered with success carries no
\* 'slmschimp', carries 'NoSend' and is Unsubscribed.
C1_NotAdultExcluded ==
    PassOver =>
        \A m \in Listed :
            (/\ is_18(m, tags[m]) = "False"
             /\ TagMarker \notin tags0[m]
             /\ AllOk(CallsOf(m))) =>
                /\ TagMarker \notin tags[m]
                /\ TagNoSend \in tags[m]
                /\ status[m] = "Unsubscribed"

C1_Witness ==
    /\ pc = "create"
    /\ \E m \in Listed :
          /\ is_18(m, tags[m]) = "False"
          /\ TagMarker \notin tags0[m]
          /\ status0[m] = "Subscribed"
          /\ AllOk(CallsOf(m))
          /\ TagNoSend \in tags[m]
          /\ status[m] = "Unsubscribed"

\* C2 as stated: every add_tag call for 'slmschimp' or Invited-<date> is
\* made for a member that resolves is_18+ = True.
C2_AsStated ==
    \A k \in 1..Len(calls) :
        InviteTagCall(calls[k]) =>
            Truthy(is_18(calls[k][2], tags[calls[k][2]]))

\* C2 amended: every add_tag call for 'slmschimp' or Invited-<date> made for
\* a member that did not carry 'slmschimp' when the run started is made for
\* a member that resolves is_18+ = True, from lines 696-697; a member that
\* already carried 'slmschimp' gets these calls from lines 704-705 whatever
\* is_18+ resolves to.
C2_InviteOnlyAdultOrMarked ==
    \A k \in 1..Len(calls) :
        InviteTagCall(calls[k]) =>
            LET m == calls[k][2] IN
            IF TagMarker \in tags0[m]
            THEN calls[k][4] \in {704, 705}
            ELSE Truthy(is_18(m, tags[m])) /\ calls[k][4] \in {696, 697}

C2_Witness ==
    \E k \in 1..Len(calls) :
        /\ calls[k][1] = "add_tag"
        /\ calls[k][3] = TagMarker
        /\ TagMarker \notin tags0[calls[k][2]]
        /\ Truthy(is_18(calls[k][2], tags[calls[k][2]]))

\* C3 as stated: across runs, a member carrying 'NoSend' never carries
\* 'slmschimp', and is Unsubscribed whenever a first pass has just ended.
C3_AsStated ==
    \A m \in DOMAIN tags :
        TagNoSend \in tags[m] =>
            /\ TagMarker \notin tags[m]
            /\ (pc = "create" /\ m \in Listed) => status[m] = "Unsubscribed"

\* C4 as stated: at most one campaign is in Draft status, and
\* create_campaign is called only from line 707, where draft_campaign_id()
\* reported no Draft.
C4_AsStated ==
    /\ Cardinality(CampaignsIn(campaigns, "save")) <= 1
    /\ \A k \in 1..Len(calls) : calls[k][1] = "create_campaign" => calls[k][4] = 707

\* C5 as stated: once the send request is answered with anything but 204,
\* the run is aborted: automate is at no later step.
C5_AsStated ==
    send_result \in {"400", "other", "exc"} => pc = "aborted"

\* C6: in the second pass the archive calls issued so far are exactly the
\* already visited members that held 'slmschimp' when the first pass ended;
\* when automate returns they are exactly the members that held it.
C6_ArchivedAreMarked ==
    /\ pc = "archive" =>
          ArchiveCalls = {m \in marked : IndexOf(m) > survey}
    /\ pc \in {"final", "done"} /\ total_items > 0 => ArchiveCalls = marked
    /\ ArchiveCalls \subseteq marked

C6_Witness ==
    /\ pc = "done"
    /\ Len(list_members) >= 2
    /\ list_members[1] \in marked
    /\ list_members[2] \notin marked
    /\ ArchiveCalls = marked

\* C7 as stated: when automate returns, every returned identifier is of a
\* member whose status is Archived, and every member the run archived is
\* returned.
C7_AsStated ==
    pc = "done" =>
        /\ \A k \in 1..Len(processed_ids) : status[processed_ids[k]] = "Archived"
        /\ \A m \in Listed : status[m] = "Archived" => m \in Range(processed_ids)

\* C7 amended: when automate returns, the returned identifiers are exactly
\* those of the members for which an archive call was issued, in call order
\* and whatever the answer to the call; every member the run archived is
\* among them.
C7_ReturnsArchiveCalls ==
    pc = "done" =>
        /\ processed_ids =
              [k \in 1..Len(SelectSeq(calls, LAMBDA e : e[1] = "archive")) |->
                  SelectSeq(calls, LAMBDA e : e[1] = "archive")[k][2]]
        /\ \A m \in Listed : status[m] = "Archived" => m \in Range(processed_ids)

C7_Witness ==
    /\ pc = "done"
    /\ \E k \in 1..Len(processed_ids) : status[processed_ids[k]] # "Archived"

\* the end-to-end scenario at the start of the run: three listed members,
\* A adult and not marked, B not adult and not marked, C marked
Scenario ==
    /\ DOMAIN tags0 = {"A", "B", "C"}
    /\ list_members = <<"A", "B", "C">>
    /\ TagAdult \in tags0["A"] /\ TagMarker \notin tags0["A"]
    /\ TagAdult \notin tags0["B"] /\ TagMarker \notin tags0["B"]
    /\ TagMarker \in tags0["C"]

\* C8: in the scenario, with every call answered with success, after the
\* first pass A carries Invited-<today> and 'slmschimp' and is Subscribed, B
\* carries 'NoSend' and no 'slmschimp' and is Unsubscribed, C was re-stamped
\* from line 704; when automate returns A and C are Archived, B is
\* Unsubscribed and was never archived, and the returned set is {A, C}.
C8_EndToEnd ==
    Scenario /\ PassOver =>
        /\ {<<"Invited", today>>, TagMarker} \subseteq tags["A"]
        /\ TagNoSend \notin tags["A"]
        /\ {<<"Invited", today>>, TagMarker} \subseteq tags["C"]
        /\ \E k \in 1..Len(calls) :
              calls[k] = <<"add_tag", "C", <<"Invited", today>>, 704, "ok">>
        /\ TagNoSend \in tags["B"] /\ TagMarker \notin tags["B"]
        /\ status["B"] = "Unsubscribed"
        /\ "B" \notin ArchiveCalls
        /\ pc \in {"create", "content", "send", "poll"} => status["A"] = "Subscribed"
        /\ pc = "done" =>
              /\ status["A"] = "Archived" /\ status["C"] = "Archived"
              /\ Range(processed_ids) = {"A", "C"}

C8_Witness ==
    /\ Scenario
    /\ pc = "done"
    /\ status0["A"] = "Unsubscribed"
    /\ Range(processed_ids) = {"A", "C"}
    /\ status["A"] = "Archived"

\* C9: for every listed member, the calls from lines 691 and 693 are none
\* when the snapshot status is "Subscribed"; otherwise they are one
\* unsubscribe then one subscribe, both issued once step 1 is done with the
\* member, and they precede every other call made for the member; whatever
\* tags the member carries.
C9_RefreshFirst ==
    \A m \in Listed :
        LET s1 == Shape(StepOneCallsOf(m))
            all == CallsOf(m)
            pair == << <<"unsubscribe", NoTag>>, <<"subscribe", NoTag>> >>
        IN  /\ get_field_status(m) = "Subscribed" => s1 = <<>>
            /\ get_field_status(m) # "Subscribed" =>
                  /\ IsPrefix(s1, pair)
                  /\ StepOneDone(m) => s1 = pair
            /\ \A k \in 1..Len(s1) : all[k][4] \in {691, 693}

C9_Witness ==
    \E m \in Listed :
        /\ get_field_status(m) = "None"
        /\ TagMarker \in tags0[m]
        /\ Len(StepOneCallsOf(m)) = 2
        /\ Len(EligCallsOf(m)) = 2
        /\ \E n \in Listed :
              /\ get_field_status(n) = "Subscribed"
              /\ EligDone(n)
              /\ Len(EligCallsOf(n)) = Len(CallsOf(n))

\* C10: for every listed member that carried no 'slmschimp' when the run
\* started and resolves is_18+ = True, the calls of the eligibility branch
\* are add_tag Invited-<today> from line 696 then add_tag 'slmschimp' from
\* line 697, both issued once the first pass is done with the member, and
\* nothing else: no 'NoSend', no unsubscribe.
C10_InviteBranch ==
    \A m \in Listed :
        (TagMarker \notin tags0[m] /\ Truthy(is_18(m, tags0[m]))) =>
            LET e == EligCallsOf(m)
                full == << <<"add_tag", <<"Invited", today>> >>,
                           <<"add_tag", <<"slmschimp", 0>> >> >>
            IN  /\ IsPrefix(Shape(e), full)
                /\ EligDone(m) => Shape(e) = full
                /\ \A k \in 1..Len(e) : e[k][4] = 695 + k

C10_Witness ==
    /\ PassOver
    /\ \E m \in Listed :
          /\ TagMarker \notin tags0[m]
          /\ Truthy(is_18(m, tags0[m]))
          /\ Len(EligCallsOf(m)) = 2
          /\ {<<"Invited", today>>, TagMarker} \subseteq tags[m]
          /\ status[m] = "Subscribed"

\* the lines of the three eligibility branches
BranchLines == {{696, 697}, {700, 701}, {704, 705}}

\* C11: for every listed member that carried 'slmschimp' when the run
\* started, the calls of the eligibility branch are add_tag Invited-<today>
\* from line 704 then add_tag 'slmschimp' from line 705 and nothing else (no
\* 'NoSend', no unsubscribe); and for every member the first pass is done
\* with, the eligibility calls are the two calls of exactly one branch.
C11_RestampBranch ==
    \A m \in Listed :
        LET e == EligCallsOf(m)
            full == << <<"add_tag", <<"Invited", today>> >>,
                       <<"add_tag", <<"slmschimp", 0>> >> >>
        IN  /\ TagMarker \in tags0[m] =>
                  /\ IsPrefix(Shape(e), full)
                  /\ EligDone(m) => Shape(e) = full
                  /\ \A k \in 1..Len(e) : e[k][4] = 703 + k
            /\ EligDone(m) =>
                  /\ Len(e) = 2
                  /\ \E b \in BranchLines : \A k \in 1..2 : e[k][4] \in b
                  /\ e[1][4] # e[2][4]

C11_Witness ==
    /\ PassOver
    /\ \E m \in Listed :
          /\ TagMarker \in tags0[m]
          /\ TagAdult \notin tags0[m]
          /\ Len(EligCallsOf(m)) = 2
          /\ EligCallsOf(m)[1][4] = 704
          /\ <<"Invited", today>> \in tags[m]
          /\ TagNoSend \notin tags[m]

\* the tag and subscription calls of automate
MemberCalls == {"add_tag", "subscribe", "unsubscribe", "archive"}

\* C12 as stated: no run of automate ends on an add_tag, subscribe,
\* unsubscribe or archive call that failed, be it by a non-success status or
\* by no response at all: after such a call automate is at its next step.
C12_AsStated ==
    \A k \in 1..Len(calls) :
        (calls[k][1] \in MemberCalls /\ calls[k][5] # "ok") =>
            ~(k = Len(calls) /\ pc = "crashed")

\* C13 as stated: the field resolution of the eligibility step never
\* raises: no step that resolves has_invite_tag and is_18+ ends the run,
\* also when the tag list or the survey detail cannot be read.
C13_AsStated ==
    [][pc = "elig" => pc' # "crashed"]_vars

\* C14 as stated: get_field(c, 'is_18+') is determined by the age answer of
\* the member's survey response detail when the detail holds one, and is
\* whether the live tags hold the 18+ tag only when it holds none.
C14_AsStated ==
    (fn = "get_field" /\ ret[2] = "is_18+" /\ ret[1] \in responses) =>
        IF arg[ret[1]] # "absent"
        THEN ret[3] = PyBool(arg[ret[1]] = "yes")
        ELSE ret[3] = PyBool(TagAdult \in tags[ret[1]])

\* the html and the event handed to the direct call, and what
\* find_campaign_date_and_url extracts from the html
Html == arg[1]
Event == arg[2]
Extracted == find_campaign_date_and_url(Html)
UrlsIn(html) == {html[k][2] : k \in UrlPositions(html)}

\* C15: whenever find_campaign_date_and_url(content) equals the event in
\* date and URL, update_campaign_content returns the content it was given,
\* token for token.
C15_NoOpWhenInSync ==
    (fn = "content" /\ ret[1] = "update"
        /\ Extracted = <<"ok", Event[1], Event[2]>>) =>
            ret[2] = "ok" /\ ret[3] = Html

C15_Witness ==
    /\ fn = "content" /\ ret[1] = "update"
    /\ Extracted = <<"ok", Event[1], Event[2]>>
    /\ Len(Html) = 3
    /\ Html[1] = <<"date", "is on ", "Wednesday", "12th", "July">>
    /\ ret[3] = Html

\* C16 as stated: when what is extracted differs from the event and no old
\* date phrase can be located (line 629 finds no match),
\* update_campaign_content returns, without raising, the content with every
\* date text as it was and the old URL replaced by the new one.
C16_AsStated ==
    (fn = "content" /\ ret[1] = "update"
        /\ Extracted[1] = "ok" /\ <<Extracted[2], Extracted[3]>> # Event
        /\ OldDatePositions(Html) = {}) =>
            /\ ret[2] = "ok"
            /\ ret[3] = ReplaceUrl(Html, Extracted[3], Event[2])

\* C17 as stated: when the date pattern or the URL pattern is not found in
\* the content, neither find_campaign_date_and_url nor
\* update_campaign_content raises.
C17_AsStated ==
    (fn = "content" /\ ret[1] \in {"find", "update"}
        /\ (\/ DatePositions(Html) = {}
            \/ UrlPositions(Html) = {})) =>
            ret[2] # "raised"

\* C18 as stated: when the content announces a date written with an ordinal
\* suffix and holds a URL, and both differ from the event,
\* update_campaign_content returns content in which that phrase reads
\* '<Weekday>, <2-digit day> <Month>' of the event, the event's URL occurs
\* and the old URL does not.
C18_AsStated ==
    (fn = "content" /\ ret[1] = "update"
        /\ Extracted[1] = "ok"
        /\ HasSuffix(Html[First(DatePositions(Html))][4])
        /\ Extracted[2] # Event[1] /\ Extracted[3] # Event[2]) =>
            /\ ret[2] = "ok"
            /\ PhraseOf(ret[3][First(DatePositions(Html))])
                  = strftime(Event[1])
            /\ Event[2] \in UrlsIn(ret[3])
            /\ Extracted[3] \notin UrlsIn(ret[3])

\* C19: for every date today, before, on or after 2023-07-12 (day 0),
\* days_till_openeve returns d = (14 - (today mod 14)) mod 14: d is within
\* 0..13, is 0 exactly on the days a whole multiple of 14 from day 0, and is
\* the least number of days to such a day; d = 0 on day 0, d = 1 on day 13.
C19_DaysTillOpeneve ==
    (fn = "dates" /\ ret[1] = "days_till_openeve") =>
        LET t == arg[1]
            d == ret[2]
        IN  /\ d = (14 - (t % 14)) % 14
            /\ d \in 0..13
            /\ d = 0 <=> \E q \in -MaxDays..MaxDays : t = 14 * q
            /\ (t + d) % 14 = 0
            /\ \A e \in 0..13 : (t + e) % 14 = 0 => d <= e
            /\ t = 0 => d = 0
            /\ t = 13 => d = 1

C19_Witness ==
    /\ fn = "dates" /\ ret[1] = "days_till_openeve"
    /\ arg[1] = -15
    /\ ret[2] = 1

\* C20: for every date today read by both clock readings, next_openeve
\* returns today + days_till_openeve(today): a day not before today, less
\* than 14 days after it, a whole multiple of 14 days from day 0, from which
\* no further day is added; from day 1 it returns day 14.
C20_NextOpeneve ==
    (fn = "dates" /\ ret[1] = "next_openeve" /\ arg[1] = arg[2]) =>
        LET t == arg[1]
            r == ret[2]
        IN  /\ r = t + ((14 - (t % 14)) % 14)
            /\ t <= r /\ r < t + 14
            /\ r % 14 = 0
            /\ (14 - (r % 14)) % 14 = 0
            /\ t = 1 => r = 14

C20_Witness ==
    /\ fn = "dates" /\ ret[1] = "next_openeve"
    /\ arg = <<-14, -14>>
    /\ ret[2] = -14

\* the calendar answer and the clock date handed to the direct call, the
\* open evenings on or after that date, and the computed next open evening
Calendar == arg[1]
Now == arg[2]
Upcoming == {d \in Calendar[2] : d >= Now}
Computed == Now + ((14 - (Now % 14)) % 14)

\* C21: when the calendar read succeeds, do_we_have_an_event returns True
\* if and only if an upcoming event is reported and the date of the closest
\* one is on or after the computed next open evening; it returns False when
\* none is reported and when the reported date precedes the computed one.
C21_ValidUpcomingEvent ==
    (fn = "event" /\ ret[1] = "do_we_have_an_event" /\ Calendar[1] = "200") =>
        /\ ret[2] \in {"True", "False"}
        /\ ret[2] = "True" <=>
              /\ Upcoming # {}
              /\ \A d \in Upcoming : d >= Computed
        /\ Upcoming = {} => ret[2] = "False"
        /\ (\E d \in Upcoming : d < Computed) => ret[2] = "False"
        /\ Computed \in Upcoming /\ (\A d \in Upcoming : d >= Computed)
              => ret[2] = "True"

C21_Witness ==
    /\ fn = "event" /\ ret[1] = "do_we_have_an_event" /\ Calendar[1] = "200"
    /\ Now = 1
    /\ Calendar[2] = {0, 15}
    /\ ret[2] = "True"

\* C22 as stated: when the calendar read fails, by a request that raises or
\* by a non-success status, get_openeve_date_and_url resolves to none and
\* do_we_have_an_event returns False; neither raises.
C22_AsStated ==
    (fn = "event" /\ Calendar[1] # "200") =>
        /\ ret[1] = "get_openeve_date_and_url" => ret[2] = "None"
        /\ ret[1] = "do_we_have_an_event" => ret[2] = "False"

\* C23: automate leaves the polling loop only when no campaign is in the
\* Sending state, so no member is archived and automate does not return
\* while the campaign it sent is still Sending; and when the collaborator
\* eventually finishes sending, every run whose send was accepted goes on
\* from the polling loop to the archive pass and returns.
C23_PollUntilSent ==
    /\ [][pc = "poll" /\ pc' = "archive" => CampaignsIn(campaigns, "sending") = {}]_vars
    /\ [](pc \in {"archive", "final", "done"} => CampaignsIn(campaigns, "sending") = {})
    /\ [](CampaignsIn(campaigns, "sending") # {} => ArchiveCalls = {})
    /\ (pc = "poll" /\ send_result = "204") ~> (pc = "done")

C23_Witness ==
    /\ pc = "done"
    /\ send_result = "204"
    /\ runs = 2
    /\ ArchiveCalls # {}
    /\ CampaignsIn(campaigns, "sending") = {}

\* C25 as stated: the wrapper never has two runs under way, starts a run
\* only when the previous one has finished and the sleep has elapsed, never
\* passes --force, and a keyboard interrupt at any point ends it with exit
\* status 0 and no further run.
C25_AsStated ==
    /\ [](fn = "timer" => ret[2] - ret[3] \in {0, 1})
    /\ [][(fn = "timer" /\ ret'[2] # ret[2]) =>
             /\ ret'[2] = ret[2] + 1
             /\ ret[1] = "setup" \/ (ret[1] = "sleep" /\ ret[3] = ret[2] /\ ret[4] = arg)]_vars
    /\ [](fn = "timer" => \A k \in 1..Len(ret[6]) : ret[6][k] \notin {"-f", "--force"})
    /\ [](fn = "timer" /\ ret[1] = "exit" => ret[5] = 0)
    /\ [][(fn = "timer" /\ ret[1] = "exit") => ret' = ret]_vars

\* C25 amended: as stated, for a keyboard interrupt that arrives once the
\* loop has been entered (during a run or during the sleep); an interrupt
\* before that, while the arguments are parsed, is not caught.
C25_SequentialRuns ==
    /\ [](fn = "timer" => ret[2] - ret[3] \in {0, 1})
    /\ [][(fn = "timer" /\ ret'[2] # ret[2]) =>
             /\ ret'[2] = ret[2] + 1
             /\ ret[1] = "setup" \/ (ret[1] = "sleep" /\ ret[3] = ret[2] /\ ret[4] = arg)]_vars
    /\ [](fn = "timer" => \A k \in 1..Len(ret[6]) : ret[6][k] \notin {"-f", "--force"})
    /\ [][(fn = "timer" /\ ret[1] \in {"run", "sleep"} /\ ret'[1] = "exit") =>
             ret'[5] = 0 /\ ret'[2] = ret[2] /\ ret'[3] = ret'[2]]_vars
    /\ [][(fn = "timer" /\ ret[1] = "exit") => ret' = ret]_vars

C25_Witness ==
    /\ fn = "timer"
    /\ ret[1] = "exit"
    /\ ret[2] = 2 /\ ret[3] = 2
    /\ ret[4] = 0
    /\ ret[5] = 0
    /\ ret[6] = <<"python3", "slmschimp.py", "-s", "-a">>

\* the phase of automate a logged call belongs to
Phase(op) ==
    CASE op \in {"add_tag", "subscribe", "unsubscribe"} -> 1
      [] op = "create_campaign" -> 2
      [] op = "set_campaign_content" -> 3
      [] op = "send_campaign" -> 4
      [] op = "archive" -> 5

\* C26: within a run the calls are issued in phase order: the tag and
\* subscription mutations of the first pass, then the creation of the Draft,
\* then the content update, then the send request, then the archive calls;
\* the campaign calls are issued once each at most; no tag or subscription
\* mutation follows the send; and no archive call is issued while a campaign
\* is in the Sending state.
C26_PhasesOrdered ==
    /\ [](\A i, j \in 1..Len(calls) :
             i < j => Phase(calls[i][1]) <= Phase(calls[j][1]))
    /\ [](\A i, j \in 1..Len(calls) :
             (i < j /\ calls[i][1] = calls[j][1]) => Phase(calls[i][1]) \in {1, 5})
    /\ [](\A i, j \in 1..Len(calls) :
             (calls[i][1] = "send_campaign"
                /\ calls[j][1] \in {"add_tag", "subscribe", "unsubscribe"}) => j < i)
    /\ [][(Len(calls') = Len(calls) + 1 /\ calls'[Len(calls')][1] = "archive")
             => CampaignsIn(campaigns, "sending") = {}]_vars

C26_Witness ==
    /\ pc = "done"
    /\ \E a, b, c, d, e \in 1..Len(calls) :
          /\ a < b /\ b < c /\ c < d /\ d < e
          /\ calls[a][1] = "add_tag"
          /\ calls[b][1] = "create_campaign"
          /\ calls[c][1] = "set_campaign_content"
          /\ calls[d] = <<"send_campaign", None, NoTag, 718, "204">>
          /\ calls[e][1] = "archive"

\* C27 as stated: a member is archived, or returned as processed, only in a
\* run whose send request for an existing Draft was answered 204.
C27_AsStated ==
    (ArchiveCalls # {} \/ (pc = "done" /\ processed_ids # <<>>))
        => send_result = "204"

\* every subscribe and unsubscribe call of this run so far has succeeded
SubscriptionCallsOk ==
    \A k \in 1..Len(calls) :
        calls[k][1] \in {"subscribe", "unsubscribe"} => calls[k][5] = "ok"

\* C28: when automate is about to issue the send request and every
\* subscribe and unsubscribe call of the run has succeeded, every list member
\* that carries 'slmschimp' is Subscribed, whatever its status was when the
\* run started.
C28_MarkedAreSubscribed ==
    (pc = "send" /\ SubscriptionCallsOk) =>
        \A m \in DOMAIN status :
            (status[m] # "Archived" /\ <<"slmschimp", 0>> \in tags[m])
                => status[m] = "Subscribed"

C28_Witness ==
    /\ pc = "send"
    /\ SubscriptionCallsOk
    /\ \E m, n \in DOMAIN status :
          /\ status0[m] \in {"Cleaned", "Pending"}
          /\ TagMarker \in tags[m]
          /\ TagMarker \notin tags0[m]
          /\ status[m] = "Subscribed"
          /\ status0[n] = "Unsubscribed"
          /\ n \in no_survey
          /\ TagMarker \in tags[n]
          /\ status[n] = "Subscribed"

\* C29 as stated: no tag, subscribe, unsubscribe or archive call of a run
\* carries the absent contact identifier None, and None is not among the
\* identifiers automate collects, also when total_items is larger than the
\* number of members in the fetched page.
C29_AsStated ==
    /\ \A k \in 1..Len(calls) :
          calls[k][1] \in {"add_tag", "subscribe", "unsubscribe", "archive"}
              => calls[k][2] # "None"
    /\ \A k \in 1..Len(processed_ids) : processed_ids[k] # "None"

\* C30 as stated: the campaign whose content step 3 reads is the Draft it
\* writes the synchronized content to, and the campaign it then sends is
\* that same Draft.
C30_AsStated ==
    /\ (pc \in {"send", "poll", "archive", "final", "done"} /\ step3[2] # 0)
          => step3[1] = step3[2]
    /\ step3[3] # 0 => step3[3] = step3[2]

\* C31 as stated: a listed member whose live tags hold the 18+ tag resolves
\* is_18+ = True, and the eligibility branch issues neither the 'NoSend'
\* add-tag call (line 700) nor the unsubscribe call (line 701) for a member
\* holding the 18+ tag, with or without a survey response in the snapshot.
C31_AsStated ==
    /\ \A m \in Range(list_members) :
          <<"18+", 0>> \in tags[m] => is_18(m, tags[m]) = "True"
    /\ \A k \in 1..Len(calls) :
          calls[k][4] \in {700, 701} => <<"18+", 0>> \notin tags[calls[k][2]]

\* C32: one invocation of main calls automate at most once; with --auto and
\* without --force it calls automate only on a day that is not the computed
\* open evening and with a calendar whose closest upcoming open evening is on
\* or after the computed one; with --auto and --force it calls automate
\* exactly once whatever the day and the calendar; without --auto never.
C32_AutomateAtMostOnce ==
    (fn = "main" /\ ret[1] = "main") =>
        /\ ret[3] \in {0, 1}
        /\ (arg[3] /\ ~arg[4] /\ ret[3] = 1) =>
              /\ (14 - (Now % 14)) % 14 # 0
              /\ Calendar[1] = "200"
              /\ Upcoming # {}
              /\ \A d \in Upcoming : d >= Computed
        /\ (arg[3] /\ ~arg[4] /\ ret[2] = "returned"
              /\ (14 - (Now % 14)) % 14 # 0
              /\ Upcoming # {} /\ \A d \in Upcoming : d >= Computed)
              => ret[3] = 1
        /\ (arg[3] /\ arg[4]) => (ret[2] = "returned" /\ ret[3] = 1)
        /\ ~arg[3] => (ret[2] = "returned" /\ ret[3] = 0)

C32_Witness ==
    /\ fn = "main" /\ ret[1] = "main"
    /\ arg[3] /\ ~arg[4]
    /\ Now = 1
    /\ Calendar = <<"200", {15}>>
    /\ ret[2] = "returned"
    /\ ret[3] = 1

\* C33 as stated: for content from which find_campaign_date_and_url extracts
\* a date and a URL and an event of the current year,
\* update_campaign_content returns content from which the event is
\* extracted, date and URL, and a second update with the same event returns
\* that content unchanged.
C33_AsStated ==
    (fn = "content" /\ ret[1] = "update" /\ Extracted[1] = "ok"
        /\ Event[1][1] = 2023) =>
            /\ ret[2] = "ok"
            /\ find_campaign_date_and_url(ret[3]) = <<"ok", Event[1], Event[2]>>
            /\ update_campaign_content(ret[3], Event) = <<"ok", ret[3]>>

\* C34: in one run the list members and the survey responses are each
\* fetched at most once, the survey responses are not fetched when the list
\* reports zero members, and no step of automate fetches either again.
C34_FetchedOnce ==
    /\ [](fetches[1] <= 1 /\ fetches[2] <= 1)
    /\ []((pc = "done" /\ total_items = 0) => fetches = <<1, 0>>)
    /\ []((pc \notin {"idle", "crashed"} /\ total_items > 0) => fetches = <<1, 1>>)
    /\ [][pc \notin {"idle", "done", "crashed", "aborted"} => fetches' = fetches]_vars

C34_Witness ==
    /\ pc = "done"
    /\ runs = 2
    /\ fetches = <<1, 1>>
    /\ Len(calls) > 3
    /\ \E m \in DOMAIN status0 : status0[m] = "Unsubscribed" /\ m \in responses

\* C35: in a run whose list reports zero members automate has returned
\* without polling, its result is empty, and it has issued no tag,
\* subscription, campaign-create, content-write, send or archive call.
C35_EmptyListNoCalls ==
    /\ []((runs > 0 /\ total_items = 0 /\ pc # "crashed") =>
             /\ pc = "done"
             /\ calls = <<>>
             /\ processed_ids = <<>>
             /\ send_result = "None"
             /\ step3 = <<0, 0, 0>>)
    /\ [][(runs' = runs + 1 /\ pc' = "done" /\ total_items' = 0) =>
             /\ status' = status
             /\ tags' = tags
             /\ campaigns' = campaigns]_vars

C35_Witness ==
    /\ runs = 2
    /\ total_items = 0
    /\ pc = "done"
    /\ calls = <<>>
    /\ processed_ids = <<>>
    /\ \E m \in DOMAIN status : status[m] = "Archived"

\* the topics of the calendar answer that are open evenings dated today or
\* later
Topics == arg[1][2]
UpcomingOpenEves ==
    {t \in Topics :
        /\ t[1] \in {<<"Open", "Evening">>, <<"OPEN", "EVENING">>,
                     <<"Reopening", "evening">>}
        /\ t[2] >= arg[2]}

\* C36: when the calendar read succeeds, get_openeve_date_and_url returns
\* none exactly when no topic whose title contains 'open' and 'evening' is
\* dated today or later; otherwise it returns the date and the URL of such a
\* topic, no such topic is dated earlier than the returned one, and the
\* returned date is never before today.
C36_EarliestUpcoming ==
    (fn = "topics" /\ ret[1] = "get_openeve_date_and_url" /\ arg[1][1] = "200") =>
        /\ ret[2] \in {"None", "event"}
        /\ ret[2] = "None" <=> UpcomingOpenEves = {}
        /\ ret[2] = "event" =>
              /\ ret[3] >= arg[2]
              /\ \E t \in UpcomingOpenEves :
                    /\ ret[3] = t[2]
                    /\ ret[4][2] = t[3]
                    /\ ret[4][1] \in {"open-evening", "reopening-evening"}
              /\ \A t \in UpcomingOpenEves : ret[3] <= t[2]

C36_Witness ==
    /\ fn = "topics" /\ ret[1] = "get_openeve_date_and_url" /\ arg[1][1] = "200"
    /\ arg[2] = 0
    /\ Topics = {<<<<"OPEN", "EVENING">>, 0, 1>>, <<<<"Open", "Evening">>, -1, 2>>}
    /\ ret = <<"get_openeve_date_and_url", "event", 0, <<"open-evening", 1>>>>

\* C37 as stated: for every content find_campaign_date_and_url returns a
\* (date, url) pair or none: none when no phrase 'is [on] <Weekday>[,]
\* <day><suffix> <Month>' occurs; otherwise the date with the day and the
\* month of the first such phrase and the current year, and the first
\* Discourse topic URL of the content.
C37_AsStated ==
    (fn = "content" /\ ret[1] = "find") =>
        /\ ret[2] \in {"ok", "None"}
        /\ ret[2] = "None" <=> (\A k \in 1..Len(Html) :
                                   ~(Html[k][1] = "date" /\ Html[k][2] = "is on "))
        /\ ret[2] = "ok" =>
              \E k \in 1..Len(Html) :
                 /\ Html[k][1] = "date" /\ Html[k][2] = "is on "
                 /\ \A j \in 1..(k - 1) :
                       ~(Html[j][1] = "date" /\ Html[j][2] = "is on ")
                 /\ ret[3][1] = <<2023, month_dict(Html[k][5]), day_number(Html[k][4])>>
                 /\ ret[3][2] \in UrlsIn(Html)

====
